---- MODULE Spec2Model ----
(***************************************************************************)
(* Model of the webapp views of lab_61 (source/webapp/views.py): the       *)
(* session basket (BasketChangeView), the basket page and checkout         *)
(* (BasketView), the product soft delete and update, and the order list.   *)
(***************************************************************************)
EXTENDS Integers, Sequences, FiniteSets, TLC

\* ---------------------------------------------------------------- bounds
MaxBasket == 3
MaxCalls == 3
MaxPrice == 2
MaxCheckouts == 1
MaxOrders == 3

\* ------------------------------------------------------------ input sets
\* The pk query parameter is a string; "01" and "1" name the same row, "3"
\* names no row.
PKs == {"1", "01", "2", "3"}
Actions == {"add", "remove"}
Users == {"alice", "bob", "staff"}
\* The user logged in to the session whose basket is modelled
SessionUser == "alice"
NoUser == "nobody"
Slots == {1, 2}

VARIABLES Product, session, Order, OrderProduct, clock, response, hist, reqs,
          lastWriter

vars == <<Product, session, Order, OrderProduct, clock, response, hist, reqs,
          lastWriter>>

\* ------------------------------------------------------------- helpers
\* int(pk), as the ORM and line 118 convert the string to the row's key.
ToInt(pk) ==
  CASE pk = "1" -> 1
    [] pk = "01" -> 1
    [] pk = "2" -> 2
    [] pk = "3" -> 3

\* user.has_perm('webapp.view_order')
has_perm(user) == user = "staff"

\* line 71, get_object_or_404(Product, pk=pk): whether the row is found
get_object_or_404(P, id) == id \in DOMAIN P

\* line 118, Product.objects.get(pk=int(pk)): whether the row is found; the
\* lookup does not look at in_order
\* (faulty variant: a lookup that also demands in_order)
Product_get_mutant_in_order(P, id) == id \in DOMAIN P /\ P[id].in_order
Product_objects_get(P, id) == id \in DOMAIN P

\* line 72: if product.in_order
\* (faulty variant: the in_order test left out)
AddAllowed_mutant_always(product) == TRUE
AddAllowed(product) == product.in_order

\* ------------------------------------------------------------- session
\* A session is a dictionary; keys holds the keys present.
EmptySession == [keys |-> {}, products |-> <<>>, products_count |-> 0]

\* request.session.get('products', [])
session_get_products(s) == IF "products" \in s.keys THEN s.products ELSE <<>>

\* line 81: len(products)
products_count(products) == Len(products)

\* lines 80-81: both keys are written
session_write(s, products) ==
  [keys |-> s.keys \cup {"products", "products_count"},
   products |-> products,
   products_count |-> products_count(products)]

\* lines 142-146: each key is popped when present
\* (faulty variant: only 'products' is popped)
clean_basket_mutant_keep_count(s) ==
  [keys |-> s.keys \ {"products"}, products |-> <<>>,
   products_count |-> s.products_count]
_clean_basket(s) ==
  [keys |-> s.keys \ {"products", "products_count"}, products |-> <<>>,
   products_count |-> 0]

\* lines 133-135
\* (faulty variant: tests the key, not the length of the list)
basket_empty_mutant_key_only(s) == "products" \notin s.keys
_basket_empty(s) == Len(session_get_products(s)) = 0

\* ------------------------------------------------------- list operations
RECURSIVE RemoveFirst(_, _)
RemoveFirst(products, pk) ==
  IF products = <<>> THEN <<>>
  ELSE IF Head(products) = pk THEN Tail(products)
  ELSE <<Head(products)>> \o RemoveFirst(Tail(products), pk)

\* lines 75-78: the first reference equal to pk is removed, then break
\* (faulty variant: every matching reference is removed)
list_remove_mutant_all(products, pk) == SelectSeq(products, LAMBDA x : x # pk)
list_remove(products, pk) == RemoveFirst(products, pk)

\* lines 124-131: the dictionary pk -> count, in order of first occurrence,
\* as a sequence of items
RECURSIVE TotalsAdd(_, _)
TotalsAdd(totals, pk) ==
  IF totals = <<>> THEN <<[pk |-> pk, qty |-> 1]>>
  ELSE IF Head(totals).pk = pk
       THEN <<[pk |-> pk, qty |-> Head(totals).qty + 1]>> \o Tail(totals)
       ELSE <<Head(totals)>> \o TotalsAdd(Tail(totals), pk)

RECURSIVE TotalsOf(_, _)
TotalsOf(products, totals) ==
  IF products = <<>> THEN totals
  ELSE TotalsOf(Tail(products), TotalsAdd(totals, Head(products)))

\* (faulty variant: a repeated reference is not counted again)
get_totals_mutant_presence(s) ==
  LET t == TotalsOf(session_get_products(s), <<>>)
  IN  [i \in 1..Len(t) |-> [pk |-> t[i].pk, qty |-> 1]]
_get_totals(s) == TotalsOf(session_get_products(s), <<>>)

\* line 119
\* (faulty variant: the quantity is left out)
LineTotal_mutant_price_only(price, qty) == price
LineTotal(price, qty) == price * qty

\* lines 113-122: a missing row raises DoesNotExist and nothing is returned
RECURSIVE PrepareLoop(_, _, _, _)
PrepareLoop(items, P, basket, basket_total) ==
  IF items = <<>>
  THEN [ok |-> TRUE, basket |-> basket, basket_total |-> basket_total]
  ELSE LET pk == Head(items).pk
           qty == Head(items).qty
       IN  IF ~Product_objects_get(P, ToInt(pk))
           THEN [ok |-> FALSE, basket |-> <<>>, basket_total |-> 0]
           ELSE LET total == LineTotal(P[ToInt(pk)].price, qty)
                IN  PrepareLoop(Tail(items), P,
                      Append(basket, [product |-> ToInt(pk), qty |-> qty,
                                      total |-> total]),
                      basket_total + total)

_prepare_basket(s, P) == PrepareLoop(_get_totals(s), P, <<>>, 0)

\* lines 63-83: the new session and the response status
BasketChangeView_get(s, P, pk, action) ==
  LET products == session_get_products(s)
  IN  IF action = "add"
      THEN IF ~get_object_or_404(P, ToInt(pk))
           THEN [session |-> s, status |-> 404]
           ELSE [session |-> session_write(s,
                    IF AddAllowed(P[ToInt(pk)]) THEN Append(products, pk)
                    ELSE products),
                 status |-> 302]
      ELSE [session |-> session_write(s, list_remove(products, pk)),
            status |-> 302]

\* ------------------------------------------------------------------ Init
NoHist == [adds |-> [pk \in PKs |-> 0], removes |-> [pk \in PKs |-> 0],
           net |-> [pk \in PKs |-> 0], pk |-> "1", action |-> "none",
           before |-> <<>>]

IdleReq == [pc |-> "idle", pk |-> "1", action |-> "add", local |-> EmptySession]

Init ==
  /\ Product = (1 :> [price |-> 1, in_order |-> TRUE]
                @@ 2 :> [price |-> 2, in_order |-> TRUE])
  /\ session = EmptySession
  /\ Order = <<>>
  /\ OrderProduct = <<>>
  /\ clock = 1
  /\ response = [view |-> "none"]
  /\ hist = NoHist
  /\ reqs = [r \in Slots |-> IdleReq]
  /\ lastWriter = 0

\* --------------------------------------------------------------- actions
Max0(n) == IF n < 0 THEN 0 ELSE n
HistCalls == LET Sum(f) == f["1"] + f["01"] + f["2"] + f["3"]
             IN  Sum(hist.adds) + Sum(hist.removes)

\* BasketChangeView.get, one request handled start to end
BasketChangeStep(pk, action) ==
  LET r == BasketChangeView_get(session, Product, pk, action)
  IN  /\ Len(r.session.products) <= MaxBasket
      /\ session' = r.session
      /\ response' = [view |-> "BasketChangeView", status |-> r.status]

BasketChange ==
  \E pk \in PKs, action \in Actions :
    /\ BasketChangeStep(pk, action)
    /\ UNCHANGED <<Product, Order, OrderProduct, clock, hist, reqs, lastWriter>>

\* The same request, with the calls made so far counted per reference and the
\* request's parameters and the list it found recorded
BasketChangeCounted ==
  \E pk \in PKs, action \in Actions :
    /\ HistCalls < MaxCalls
    /\ BasketChangeStep(pk, action)
    /\ hist' =
         IF action = "add"
         THEN [hist EXCEPT !.adds[pk] = @ + 1,
                 !.net[pk] = IF ToInt(pk) \in DOMAIN Product
                                /\ Product[ToInt(pk)].in_order
                             THEN @ + 1 ELSE @,
                 !.pk = pk, !.action = action,
                 !.before = session_get_products(session)]
         ELSE [hist EXCEPT !.removes[pk] = @ + 1, !.net[pk] = Max0(@ - 1),
                 !.pk = pk, !.action = action,
                 !.before = session_get_products(session)]
    /\ UNCHANGED <<Product, Order, OrderProduct, clock, reqs, lastWriter>>

\* ProductDeleteView.delete, lines 55-59
ProductDelete ==
  \E id \in DOMAIN Product :
    /\ Product' = [Product EXCEPT ![id].in_order = FALSE]
    /\ response' = [view |-> "ProductDeleteView", product |-> id]
    /\ UNCHANGED <<session, Order, OrderProduct, clock, hist, reqs, lastWriter>>

\* ProductUpdateView, lines 39-46: the form sets price and in_order
ProductUpdate ==
  \E id \in DOMAIN Product, price \in 1..MaxPrice, in_order \in BOOLEAN :
    /\ Product' = [Product EXCEPT ![id] = [price |-> price, in_order |-> in_order]]
    /\ response' = [view |-> "ProductUpdateView", product |-> id]
    /\ UNCHANGED <<session, Order, OrderProduct, clock, hist, reqs, lastWriter>>

\* BasketView GET: get_context_data, lines 92-96
BasketGet ==
  LET b == _prepare_basket(session, Product)
  IN  /\ response' = [view |-> "BasketView.get", ok |-> b.ok,
                      basket |-> b.basket, basket_total |-> b.basket_total]
      /\ UNCHANGED <<Product, session, Order, OrderProduct, clock, hist, reqs,
                     lastWriter>>

NextBasket == BasketChange \/ ProductDelete \/ ProductUpdate \/ BasketGet

SpecBasket == Init /\ [][NextBasket]_vars

NextCount == BasketChangeCounted \/ ProductDelete

SpecCount == Init /\ [][NextCount]_vars

\* ------------------------------------------------------------- checkout
\* ProcessFormView.post of the CreateView that BasketView extends (line 86):
\* form_valid runs only when the form validates
\* (faulty variant: form_valid runs whatever the form holds)
form_is_valid_mutant_always(form_ok) == TRUE
form_is_valid(form_ok) == form_ok

\* BasketOrderCreateForm(user=request.user).save(): the new Order row
BasketOrderCreateForm_save(user, created_at) ==
  [user |-> user, created_at |-> created_at, status |-> "new"]

\* lines 137-140: one OrderProduct row per item of the totals
_save_order_products(s, order_pk) ==
  LET t == _get_totals(s)
  IN  [i \in 1..Len(t) |->
         [order |-> order_pk, product |-> ToInt(t[i].pk), amount |-> t[i].qty]]

\* BasketView POST with a rejected form: form_invalid renders the page again
CheckoutRejected ==
  \E user \in {SessionUser}, form_ok \in BOOLEAN :
    /\ ~form_is_valid(form_ok)
    /\ response' = [view |-> "BasketView.post", user |-> user,
                    form_ok |-> form_ok,
                    status |-> "form_invalid", error |-> "field",
                    context |-> _prepare_basket(session, Product)]
    /\ UNCHANGED <<Product, session, Order, OrderProduct, clock, hist, reqs,
                   lastWriter>>

\* lines 104-106
CheckoutEmpty ==
  \E user \in {SessionUser}, form_ok \in BOOLEAN :
    /\ form_is_valid(form_ok)
    /\ _basket_empty(session)
    /\ response' = [view |-> "BasketView.post", user |-> user,
                    form_ok |-> form_ok,
                    status |-> "form_invalid", error |-> "basket_empty",
                    context |-> _prepare_basket(session, Product)]
    /\ UNCHANGED <<Product, session, Order, OrderProduct, clock, hist, reqs,
                   lastWriter>>

\* lines 107-111
CheckoutDone ==
  \E user \in {SessionUser}, form_ok \in BOOLEAN :
    /\ form_is_valid(form_ok)
    /\ ~_basket_empty(session)
    /\ Len(Order) < MaxCheckouts
    /\ Order' = Append(Order, BasketOrderCreateForm_save(user, clock))
    /\ clock' = clock + 1
    /\ OrderProduct' = OrderProduct \o _save_order_products(session, Len(Order) + 1)
    /\ session' = _clean_basket(session)
    /\ response' = [view |-> "BasketView.post", user |-> user,
                    form_ok |-> form_ok,
                    status |-> "redirect", error |-> "none",
                    order |-> Len(Order) + 1]
    /\ UNCHANGED <<Product, hist, reqs, lastWriter>>

Next ==
  BasketChange \/ CheckoutRejected \/ CheckoutEmpty \/ CheckoutDone

Spec == Init /\ [][Next]_vars

\* --------------------------------------------------------------- orders
\* OrderCreateView, lines 167-172: the form's user field names any user or none
OrderCreate ==
  \E user \in Users \cup {NoUser} :
    /\ Len(Order) < MaxOrders
    /\ Order' = Append(Order, [user |-> user, created_at |-> clock,
                               status |-> "new"])
    /\ clock' = clock + 1
    /\ response' = [view |-> "OrderCreateView", order |-> Len(Order) + 1]
    /\ UNCHANGED <<Product, session, OrderProduct, hist, reqs, lastWriter>>

\* The orderings of the rows pks in which a query may return them
Orderings(pks) ==
  {q \in [1..Cardinality(pks) -> pks] : \A i, j \in DOMAIN q : q[i] = q[j] => i = j}

\* order_by('-created_at')
order_by_created_at_desc(O, q) ==
  \A i, j \in DOMAIN q : i < j => O[q[i]].created_at >= O[q[j]].created_at

\* user.orders.all(): the rows the user owns
user_orders(O, user) == {pk \in DOMAIN O : O[pk].user = user}

\* lines 152-155: the sequences of order pks the queryset may yield; the
\* second query states no ordering
OrderListView_get_queryset(O, user) ==
  IF has_perm(user)
  THEN {q \in Orderings(DOMAIN O) : order_by_created_at_desc(O, q)}
  ELSE Orderings(user_orders(O, user))

OrderList ==
  \E user \in Users :
    \E q \in OrderListView_get_queryset(Order, user) :
      /\ response' = [view |-> "OrderListView", user |-> user, object_list |-> q]
      /\ UNCHANGED <<Product, session, Order, OrderProduct, clock, hist, reqs,
                     lastWriter>>

NextOrders == OrderCreate \/ OrderList

SpecOrders == Init /\ [][NextOrders]_vars

\* ------------------------------------------- two requests of one session
\* The session middleware writes the request's own copy of the session back
\* (faulty variant: the request's copy is never stored)
session_save_mutant_dropped(stored, local) == stored
session_save(stored, local) == local

\* line 64: the request reads the session it loaded from the store
ReqLoad ==
  \E r \in Slots, pk \in PKs, action \in Actions :
    /\ reqs[r].pc = "idle"
    /\ reqs' = [reqs EXCEPT ![r] = [pc |-> "loaded", pk |-> pk,
                                    action |-> action, local |-> session]]
    /\ UNCHANGED <<Product, session, Order, OrderProduct, clock, response, hist,
                   lastWriter>>

\* lines 66-83: the request changes its copy and the copy is stored
ReqFinish ==
  \E r \in Slots :
    LET res == BasketChangeView_get(reqs[r].local, Product, reqs[r].pk,
                                    reqs[r].action)
    IN  /\ reqs[r].pc = "loaded"
        /\ Len(res.session.products) <= MaxBasket
        /\ reqs' = [reqs EXCEPT ![r].pc = "done"]
        /\ session' = IF res.status = 302
                      THEN session_save(session, res.session) ELSE session
        /\ lastWriter' = IF res.status = 302 THEN r ELSE lastWriter
        /\ response' = [view |-> "BasketChangeView", status |-> res.status]
        /\ UNCHANGED <<Product, Order, OrderProduct, clock, hist>>

NextConc == ReqLoad \/ ReqFinish

SpecConc == Init /\ [][NextConc]_vars

\* ------------------------------------------------------------ properties
\* The basket as the session holds it
Basket == IF "products" \in session.keys THEN session.products ELSE <<>>
Refs(seq) == {seq[i] : i \in DOMAIN seq}
Count(seq, x) == Cardinality({i \in DOMAIN seq : seq[i] = x})
BasketKeys == {"products", "products_count"}

\* The quantity _get_totals reports for a reference, 0 when it has no entry
AggregateQty(pk) ==
  LET t == _get_totals(session)
      hit == {i \in DOMAIN t : t[i].pk = pk}
  IN  IF hit = {} THEN 0 ELSE t[CHOOSE i \in hit : TRUE].qty

RECURSIVE SumPrices(_)
SumPrices(seq) ==
  IF seq = <<>> THEN 0
  ELSE Product[ToInt(Head(seq))].price + SumPrices(Tail(seq))

RECURSIVE SumTotals(_)
SumTotals(basket) ==
  IF basket = <<>> THEN 0 ELSE Head(basket).total + SumTotals(Tail(basket))

C2_EmptyBasketCheckoutRejected ==
  [][(response'.view = "BasketView.post" /\ Basket = <<>>)
       => /\ response'.status = "form_invalid"
          /\ Order' = Order
          /\ OrderProduct' = OrderProduct]_vars

C2_Witness ==
  /\ response.view = "BasketView.post"
  /\ response.form_ok
  /\ response.error = "basket_empty"
  /\ "products" \in session.keys
  /\ session.products = <<>>

\* C3 as stated: for every existing purchasable product the aggregated
\* quantity is (Add calls) - (Remove calls), floored at 0.
C3_Original ==
  \A pk \in PKs :
    (ToInt(pk) \in DOMAIN Product /\ Product[ToInt(pk)].in_order)
      => AggregateQty(pk) = Max0(hist.adds[pk] - hist.removes[pk])

\* C3 amended: the aggregated quantity of a reference is the running count
\* that each Add made while the product is purchasable raises by one and each
\* Remove lowers by one unless it is 0; it is never negative.
C3_RunningCount ==
  \A pk \in PKs : AggregateQty(pk) = hist.net[pk] /\ AggregateQty(pk) >= 0

C3_Witness ==
  \E pk \in PKs :
    /\ hist.adds[pk] = 2
    /\ hist.removes[pk] = 1
    /\ hist.action = "remove"
    /\ hist.pk = pk
    /\ Len(hist.before) = 2
    /\ AggregateQty(pk) = 1

\* C4: an Add of a product that exists and has in_order = false leaves the
\* list of references as the request found it.
C4_AddNotPurchasableNoChange ==
  (/\ response.view = "BasketChangeView"
   /\ hist.action = "add"
   /\ ToInt(hist.pk) \in DOMAIN Product
   /\ ~Product[ToInt(hist.pk)].in_order)
    => /\ Basket = hist.before
       /\ \A pk \in PKs : AggregateQty(pk) = Count(hist.before, pk)

C4_Witness ==
  /\ response.view = "BasketChangeView"
  /\ hist.action = "add"
  /\ ToInt(hist.pk) \in DOMAIN Product
  /\ ~Product[ToInt(hist.pk)].in_order
  /\ hist.before # <<>>
  /\ response.status = 302

\* C5 as stated: the list of a user without the capability holds no order of
\* another user, the list of a user with it holds every order, and in both
\* cases the list is sorted by creation time, newest first.
C5_Original ==
  response.view = "OrderListView"
    => LET q == response.object_list
       IN  /\ ~has_perm(response.user)
                => \A i \in DOMAIN q : Order[q[i]].user = response.user
           /\ has_perm(response.user) => Refs(q) = DOMAIN Order
           /\ \A i, j \in DOMAIN q :
                i < j => Order[q[i]].created_at >= Order[q[j]].created_at

C7_Original ==
  (/\ response.view = "BasketView.get"
   /\ \E pk \in Refs(Basket) : ~Product[ToInt(pk)].in_order)
    => ~response.ok /\ response.basket = <<>>

\* C7 amended: with a soft-deleted product in the basket the basket page
\* does not fail, and lists the soft-deleted product with its quantity like
\* any other.
C7_SoftDeletedStillListed ==
  (/\ response.view = "BasketView.get"
   /\ \E pk \in Refs(Basket) : ~Product[ToInt(pk)].in_order)
    => /\ response.ok
       /\ Len(response.basket) = Cardinality(Refs(Basket))
       /\ \A pk \in Refs(Basket) :
             ~Product[ToInt(pk)].in_order
               => \E i \in DOMAIN response.basket :
                    /\ response.basket[i].product = ToInt(pk)
                    /\ response.basket[i].qty = Count(Basket, pk)

C7_Witness ==
  /\ response.view = "BasketView.get"
  /\ \E pk \in Refs(Basket) : ~Product[ToInt(pk)].in_order
  /\ response.ok
  /\ Len(response.basket) = 2

\* C8: a checkout whose form is rejected creates no Order and no OrderProduct
\* row and leaves the session as it was.
C8_RejectedFormChangesNothing ==
  [][(response'.view = "BasketView.post" /\ ~response'.form_ok)
       => /\ response'.status = "form_invalid"
          /\ Order' = Order
          /\ OrderProduct' = OrderProduct
          /\ session' = session]_vars

C8_Witness ==
  /\ response.view = "BasketView.post"
  /\ ~response.form_ok
  /\ response.error = "field"
  /\ Len(Basket) = 2
  /\ Order = <<>>

\* C9: the stored session is the copy of the request that wrote last, changed
\* by that request alone: what another request stored after this one loaded
\* is overwritten.
C9_LastWriteWins ==
  lastWriter # 0
    => LET w == reqs[lastWriter]
           before == IF "products" \in w.local.keys THEN w.local.products
                     ELSE <<>>
       IN  /\ w.pc = "done"
           /\ Basket = IF w.action = "add"
                       THEN IF Product[ToInt(w.pk)].in_order
                            THEN Append(before, w.pk) ELSE before
                       ELSE RemoveFirst(before, w.pk)

\* Both requests added a purchasable product and completed; one reference is stored
C9_Witness ==
  /\ \A r \in Slots :
       /\ reqs[r].pc = "done"
       /\ reqs[r].action = "add"
       /\ ToInt(reqs[r].pk) \in DOMAIN Product
       /\ reqs[r].local = EmptySession
  /\ reqs[1].pk # reqs[2].pk
  /\ Len(Basket) = 1

\* C10: 'products' and 'products_count' are both present with products_count
\* the length of 'products', or both absent.
C10_CountAgrees ==
  \/ /\ BasketKeys \subseteq session.keys
     /\ session.products_count = Len(session.products)
  \/ session.keys \cap BasketKeys = {}

C10_Witness ==
  /\ response.view = "BasketView.post"
  /\ response.status = "redirect"
  /\ session.keys \cap BasketKeys = {}
  /\ Len(Order) = 1

====
